---- MODULE Spec2Model ----
(***************************************************************************)
(* Model of github_flavored_markdown (src/main.go): the RenderNode hooks   *)
(* for headings and code blocks, the language-tag extraction, the diff     *)
(* scan of highlightCode and the attrEscape fallback.                      *)
(*                                                                         *)
(* A byte is a one-character string; a []byte or string is a sequence of   *)
(* bytes.  Go indices are 0-based, TLA+ sequences 1-based: src[i] of the   *)
(* code is src[i + 1] here.  The fence-info string is a sequence of atoms, *)
(* each atom either one whitespace byte or a word that holds no            *)
(* whitespace; no word is a concatenation of the others, so two infos are  *)
(* equal as strings exactly when they are equal as sequences.              *)
(***************************************************************************)
EXTENDS Integers, Sequences, FiniteSets, TLC

VARIABLES node, w, hl, pc

vars == <<node, w, hl, pc>>

\* ---------------------------------------------------------------- bounds
MaxInfoLen == 2
MaxLitLen == 3
MaxDepth == 1
MaxLines == 5

\* ---------------------------------------------------------------- inputs
Whitespace == {"\t", " "}
InfoAtoms == {"diff", "Go", "Go-unformatted", "py", " ", "\t"}
LitBytes == {"\"", "&", "<", ">", "a", ";"}
TitleBytes == {"A", " "}
NUL == "NUL"

SeqsUpTo(S, n) == UNION {[1..k -> S] : k \in 0..n}

Min(S) == CHOOSE x \in S : \A y \in S : x <= y

\* html.Node: a text node or an element node with its children
TextNode(data) == [Type |-> "TextNode", Data |-> data, Children |-> <<>>]

ElementNode(tag, kids) == [Type |-> "ElementNode", Data |-> <<tag>>, Children |-> kids]

RECURSIVE InlineNodes(_)
InlineNodes(d) ==
    IF d = 0 THEN {TextNode(<<c>>) : c \in TitleBytes}
    ELSE InlineNodes(d - 1) \cup
         {ElementNode("em", k) :
             k \in {<<>>} \cup {<<x>> : x \in InlineNodes(d - 1)}
                   \cup {<<x, y>> : x \in InlineNodes(d - 1), y \in InlineNodes(d - 1)}}

\* The inline content of a heading, as the fragment html.Parse reads from it.
HeadingLiterals ==
    {<<>>} \cup {<<x>> : x \in InlineNodes(MaxDepth)}
           \cup {<<x, y>> : x \in InlineNodes(MaxDepth), y \in InlineNodes(MaxDepth)}

\* bf.Node, with the fields the hooks read
HeadingNodes ==
    [Type : {"Heading"}, Info : {<<>>}, Literal : HeadingLiterals,
     Level : 1..6, Prev : BOOLEAN]

CodeBlockNodes ==
    [Type : {"CodeBlock"}, Info : SeqsUpTo(InfoAtoms, MaxInfoLen),
     Literal : SeqsUpTo(LitBytes, MaxLitLen), Level : {0}, Prev : BOOLEAN]

OtherNodes ==
    [Type : {"Paragraph", "Text"}, Info : {<<>>}, Literal : SeqsUpTo(LitBytes, 1),
     Level : {0}, Prev : BOOLEAN]

\* ---------------------------------------------------------------- output
\* What a hook writes to w: the tags of its format strings, one token each,
\* and the bytes it copies.
OpenTag(name) == [t |-> "open", name |-> name]

CloseTag(name) == [t |-> "close", name |-> name]

Newline == [t |-> "bytes", data |-> <<"\n">>]

\* ---------------------------------------------------------------- findLang
\* bytes.IndexAny(s, chars): the 0-based index of the first byte of s that is
\* in chars, -1 when there is none
IndexAny(s, chars) ==
    LET hits == {i \in 1..Len(s) : s[i] \in chars}
    IN IF hits = {} THEN -1 ELSE Min(hits) - 1

findLang(info) ==
    LET endOfLang == IndexAny(info, Whitespace)
    IN IF endOfLang < 0 THEN <<>> ELSE SubSeq(info, 1, endOfLang)

\* ---------------------------------------------------------------- attrEscape
escapeSingleChar(char) ==
    IF char = "\"" THEN [entity |-> <<"&", "q", "u", "o", "t", ";">>, ok |-> TRUE]
    ELSE IF char = "&" THEN [entity |-> <<"&", "a", "m", "p", ";">>, ok |-> TRUE]
    ELSE IF char = "<" THEN [entity |-> <<"&", "l", "t", ";">>, ok |-> TRUE]
    ELSE IF char = ">" THEN [entity |-> <<"&", "g", "t", ";">>, ok |-> TRUE]
    ELSE [entity |-> <<>>, ok |-> FALSE]

\* attrEscapeStep with org left on the escaped byte instead of past it
attrEscapeStepKeepsByte(src, i, st) ==
    LET e == escapeSingleChar(src[i + 1])
    IN IF e.ok
       THEN [org |-> i,
             out |-> st.out
                     \o (IF i > st.org THEN SubSeq(src, st.org + 1, i) ELSE <<>>)
                     \o e.entity]
       ELSE st

\* One iteration of the range loop of attrEscape at index i: st is [org, out].
attrEscapeStep(src, i, st) ==
    LET e == escapeSingleChar(src[i + 1])
    IN IF e.ok
       THEN [org |-> i + 1,
             out |-> st.out
                     \o (IF i > st.org THEN SubSeq(src, st.org + 1, i) ELSE <<>>)
                     \o e.entity]
       ELSE st

RECURSIVE attrEscapeLoop(_, _, _)
attrEscapeLoop(src, i, st) ==
    IF i >= Len(src) THEN st
    ELSE attrEscapeLoop(src, i + 1, attrEscapeStep(src, i, st))

\* The bytes attrEscape writes for src.
attrEscape(src) ==
    LET st == attrEscapeLoop(src, 0, [org |-> 0, out |-> <<>>])
    IN IF st.org < Len(src)
       THEN st.out \o SubSeq(src, st.org + 1, Len(src))
       ELSE st.out

\* ---------------------------------------------------------------- diff scan
\* bytes.Split(s, sep) for a one-byte separator
RECURSIVE Split(_, _)
Split(s, sep) ==
    LET k == IndexAny(s, {sep})
    IN IF k < 0 THEN <<s>>
       ELSE <<SubSeq(s, 1, k)>> \o Split(SubSeq(s, k + 2, Len(s)), sep)

\* lineStarts[lineIndex] of the code is lineStartsOf(lines)[lineIndex + 1]
RECURSIVE lineStartsLoop(_, _, _, _)
lineStartsLoop(lines, lineIndex, offset, lineStarts) ==
    IF lineIndex >= Len(lines) THEN lineStarts
    ELSE lineStartsLoop(lines, lineIndex + 1,
                        offset + Len(lines[lineIndex + 1]) + 1,
                        Append(lineStarts, offset))

lineStartsOf(lines) == lineStartsLoop(lines, 0, 0, <<>>)

firstChar(line) == IF Len(line) > 0 THEN line[1] ELSE NUL

Annotation(start, end, left) ==
    [Start |-> start, End |-> end, Left |-> left, Right |-> "</span>", WantInner |-> 0]

GdLeft == "<span class=\"gd input-block\">"
GiLeft == "<span class=\"gi input-block\">"

\* hunkMarkers with an unset lastDel completed from the current line instead of
\* from lastIns
hunkMarkersDelAtLine(lineIndex, st) ==
    IF st.lastDel = -1 THEN [lastDel |-> lineIndex, lastIns |-> st.lastIns]
    ELSE IF st.lastIns = -1 THEN [lastDel |-> st.lastDel, lastIns |-> lineIndex]
    ELSE [lastDel |-> st.lastDel, lastIns |-> st.lastIns]

\* The markers as the default branch completes them before it reads the offsets.
hunkMarkers(lineIndex, st) ==
    IF st.lastDel = -1 THEN [lastDel |-> st.lastIns, lastIns |-> st.lastIns]
    ELSE IF st.lastIns = -1 THEN [lastDel |-> st.lastDel, lastIns |-> lineIndex]
    ELSE [lastDel |-> st.lastDel, lastIns |-> st.lastIns]

\* leftContent / rightContent: "\x00" + lines[line][1:] + "\n" for line in from..to-1
RECURSIVE strippedContent(_, _, _)
strippedContent(lines, from, to) ==
    IF from >= to THEN <<>>
    ELSE <<NUL>> \o Tail(lines[from + 1]) \o <<"\n">> \o strippedContent(lines, from + 1, to)

\* wantsSegments testing the first line of the removal block instead of the
\* line that closes the hunk
wantsSegmentsByRemovalLine(lines, m, lineFirstChar) ==
    "@" # firstChar(lines[m.lastDel + 1])

\* Whether the hunk closed at a line that starts with lineFirstChar goes to
\* highlight_diff.HighlightedDiffFunc.
wantsSegments(lines, m, lineFirstChar) == "@" # lineFirstChar

\* The two wrapper annotations of the hunk closed at lineIndex.
hunkWrappers(lineStarts, m, lineIndex) ==
    LET beginOffsetLeft == lineStarts[m.lastDel + 1]
        endOffsetLeft == lineStarts[m.lastIns + 1]
        beginOffsetRight == lineStarts[m.lastIns + 1]
        endOffsetRight == lineStarts[lineIndex + 1]
    IN <<Annotation(beginOffsetLeft, endOffsetLeft, GdLeft),
         Annotation(beginOffsetRight, endOffsetRight, GiLeft)>>

\* The call of HighlightedDiffFunc for the hunk closed at lineIndex; the spans it
\* returns are the imported package's and are kept as the call that yields them.
segmentsCall(lines, lineStarts, m, lineIndex) ==
    [leftContent |-> strippedContent(lines, m.lastDel, m.lastIns),
     rightContent |-> strippedContent(lines, m.lastIns, lineIndex),
     offsets |-> <<lineStarts[m.lastDel + 1], lineStarts[m.lastIns + 1]>>]

\* The default branch of the switch, up to the reset of the markers.
closeHunk(lines, lineStarts, lineIndex, lineFirstChar, st) ==
    IF st.lastDel # -1 \/ st.lastIns # -1
    THEN LET m == hunkMarkers(lineIndex, st)
         IN [lastDel |-> -1, lastIns |-> -1,
             anns |-> st.anns \o hunkWrappers(lineStarts, m, lineIndex),
             segments |-> IF wantsSegments(lines, m, lineFirstChar)
                          THEN Append(st.segments,
                                      segmentsCall(lines, lineStarts, m, lineIndex))
                          ELSE st.segments]
    ELSE [st EXCEPT !.lastDel = -1, !.lastIns = -1]

\* One iteration of the scan loop.
scanLine(lines, lineStarts, lineIndex, st) ==
    LET lineFirstChar == firstChar(lines[lineIndex + 1])
    IN IF lineFirstChar = "+"
       THEN [st EXCEPT !.lastIns = IF @ = -1 THEN lineIndex ELSE @]
       ELSE IF lineFirstChar = "-"
       THEN [st EXCEPT !.lastDel = IF @ = -1 THEN lineIndex ELSE @]
       ELSE closeHunk(lines, lineStarts, lineIndex, lineFirstChar, st)

RECURSIVE scanLoop(_, _, _, _)
scanLoop(lines, lineStarts, lineIndex, st) ==
    IF lineIndex >= Len(lines) THEN st
    ELSE scanLoop(lines, lineStarts, lineIndex + 1,
                  scanLine(lines, lineStarts, lineIndex, st))

\* The scan of a diff text: the wrapper annotations it appends (anns, in the
\* order appended), its HighlightedDiffFunc calls (segments) and the markers
\* after the last line.  The annotations highlight_diff.Annotate returned, to
\* which the code appends, are the imported package's and are left out of anns.
diffScan(src) ==
    LET lines == Split(src, "\n")
    IN scanLoop(lines, lineStartsOf(lines), 0,
                [lastDel |-> -1, lastIns |-> -1, anns |-> <<>>, segments |-> <<>>])

\* ---------------------------------------------------------------- highlightCode
NoScan == [lastDel |-> -1, lastIns |-> -1, anns |-> <<>>, segments |-> <<>>]

\* The results of the imported packages that highlightCode branches on: whether
\* highlight_go.Print, highlight_diff.Annotate and annotate.Annotate return an
\* error.
ExtOutcomes(lang) ==
    IF lang \in {<<"Go">>, <<"Go-unformatted">>}
    THEN [printErr : BOOLEAN, annotateErr : {FALSE}, renderErr : {FALSE}]
    ELSE IF lang = <<"diff">>
    THEN {e \in [printErr : {FALSE}, annotateErr : BOOLEAN, renderErr : BOOLEAN] :
             e.annotateErr => ~e.renderErr}
    ELSE [printErr : {FALSE}, annotateErr : {FALSE}, renderErr : {FALSE}]

\* highlightCode(src, lang): ok and highlightedCode (out: what the imported
\* printer, or sort.Sort and annotate.Annotate, yield, kept as their arguments),
\* with the case of the switch taken (path) and the scan.
highlightCode(src, lang, ext) ==
    IF lang \in {<<"Go">>, <<"Go-unformatted">>}
    THEN IF ext.printErr
         THEN [lang |-> lang, path |-> "Go", ok |-> FALSE, out |-> <<>>,
               scanned |-> FALSE, scan |-> NoScan]
         ELSE [lang |-> lang, path |-> "Go", ok |-> TRUE,
               out |-> <<[t |-> "highlighted", src |-> src]>>,
               scanned |-> FALSE, scan |-> NoScan]
    ELSE IF lang = <<"diff">>
    THEN IF ext.annotateErr
         THEN [lang |-> lang, path |-> "diff", ok |-> FALSE, out |-> <<>>,
               scanned |-> FALSE, scan |-> NoScan]
         ELSE LET sc == diffScan(src)
              IN IF ext.renderErr
                 THEN [lang |-> lang, path |-> "diff", ok |-> FALSE, out |-> <<>>,
                       scanned |-> TRUE, scan |-> sc]
                 ELSE [lang |-> lang, path |-> "diff", ok |-> TRUE,
                       out |-> <<[t |-> "annotated", src |-> src, anns |-> sc.anns,
                                  segments |-> sc.segments]>>,
                       scanned |-> TRUE, scan |-> sc]
    ELSE [lang |-> lang, path |-> "default", ok |-> FALSE, out |-> <<>>,
          scanned |-> FALSE, scan |-> NoScan]

\* hl before RenderNode has called highlightCode
NotCalled ==
    [lang |-> <<>>, path |-> "none", ok |-> FALSE, out |-> <<>>,
     scanned |-> FALSE, scan |-> NoScan]

\* ---------------------------------------------------------------- codeblock
DivOpen(lang) ==
    [t |-> "open", name |-> "div",
     class |-> <<<<"highlight">>, <<"highlight-">> \o lang>>]

codeblockOpen(lang) ==
    IF Len(lang) = 0 THEN <<OpenTag("pre"), OpenTag("code")>>
    ELSE <<DivOpen(lang)>>

codeblockBody(literal, r) ==
    IF r.ok THEN r.out
    ELSE <<[t |-> "bytes", data |-> attrEscape(literal)]>>

codeblockClose(lang) ==
    IF Len(lang) = 0 THEN <<CloseTag("code"), CloseTag("pre")>>
    ELSE <<CloseTag("pre"), CloseTag("div")>>

codeblock ==
    /\ pc = "call"
    /\ node.Type = "CodeBlock"
    /\ LET lang == findLang(node.Info)
       IN \E ext \in ExtOutcomes(lang) :
            LET r == highlightCode(node.Literal, lang, ext)
            IN /\ w' = codeblockOpen(lang) \o codeblockBody(node.Literal, r)
                       \o codeblockClose(lang)
               /\ hl' = r
    /\ pc' = "done"
    /\ UNCHANGED node

\* ---------------------------------------------------------------- heading
\* html.Parse of the fragment: the document tree with the fragment in its body.
\* Its error branch needs a failing reader, which bytes.NewReader never is.
htmlParse(literal) ==
    ElementNode("html", <<ElementNode("head", <<>>), ElementNode("body", literal)>>)

RECURSIVE extractChildren(_)
extractChildren(kids) ==
    IF kids = <<>> THEN <<>>
    ELSE (IF Head(kids).Type = "TextNode" THEN Head(kids).Data
          ELSE extractChildren(Head(kids).Children))
         \o extractChildren(Tail(kids))

extractText(n) == extractChildren(n.Children)

\* sanitized_anchor_name.Create: letters and digits lower-cased, every run of
\* other bytes between them one dash
IsLetterOrNumber(r) == r \in {"A", "a"}

ToLower(r) == IF r = "A" THEN "a" ELSE r

RECURSIVE CreateLoop(_, _, _, _)
CreateLoop(text, i, futureDash, anchorName) ==
    IF i >= Len(text) THEN anchorName
    ELSE LET r == text[i + 1]
         IN IF IsLetterOrNumber(r)
            THEN CreateLoop(text, i + 1, FALSE,
                            (IF futureDash /\ Len(anchorName) > 0
                             THEN Append(anchorName, "-") ELSE anchorName)
                            \o <<ToLower(r)>>)
            ELSE CreateLoop(text, i + 1, TRUE, anchorName)

Create(text) == CreateLoop(text, 0, FALSE, <<>>)

HOpen(level) == [t |-> "open", name |-> "h", level |-> level]

HClose(level) == [t |-> "close", name |-> "h", level |-> level]

AnchorOpen(anchorName) ==
    [t |-> "open", name |-> "a", aname |-> anchorName, href |-> <<"#">> \o anchorName]

SpanOpen == [t |-> "open", name |-> "span", class |-> <<<<"octicon">>, <<"octicon-link">>>>]

headingAnchor(literal) ==
    LET textContent == extractText(htmlParse(literal))
        anchorName == Create(textContent)
    IN <<AnchorOpen(anchorName), SpanOpen, CloseTag("span"), CloseTag("a")>>

\* What heading writes for a node.
headingBytes(n) ==
    (IF n.Prev THEN <<Newline>> ELSE <<>>)
    \o <<HOpen(n.Level)>> \o headingAnchor(n.Literal)
    \o <<HClose(n.Level), Newline>>

heading ==
    /\ pc = "call"
    /\ node.Type = "Heading"
    /\ w' = headingBytes(node)
    /\ pc' = "done"
    /\ UNCHANGED <<node, hl>>

\* RenderNode on a node that is neither a heading nor a code block
otherNode ==
    /\ pc = "call"
    /\ node.Type \notin {"Heading", "CodeBlock"}
    /\ w' = <<>>
    /\ pc' = "done"
    /\ UNCHANGED <<node, hl>>

\* ---------------------------------------------------------------- specifications
\* RenderNode called on one node of the tree
Init ==
    /\ \/ node \in HeadingNodes
       \/ node \in CodeBlockNodes
       \/ node \in OtherNodes
    /\ w = <<>>
    /\ hl = NotCalled
    /\ pc = "call"

Next == heading \/ codeblock \/ otherNode

Spec == Init /\ [][Next]_vars

\* A fenced block tagged diff: the lines of its literal
DiffLineChoices == {<<>>, <<"+", "a">>, <<"-", "a">>, <<"@", "@">>, <<"a">>}

RECURSIVE Join(_, _)
Join(lines, sep) ==
    IF Len(lines) = 1 THEN lines[1]
    ELSE lines[1] \o <<sep>> \o Join(Tail(lines), sep)

DiffSources ==
    {Join(ls, "\n") : ls \in UNION {[1..k -> DiffLineChoices] : k \in 1..MaxLines}}

InitDiff ==
    /\ node \in [Type : {"CodeBlock"}, Info : {<<"diff", " ">>}, Literal : DiffSources,
                 Level : {0}, Prev : {FALSE}]
    /\ w = <<>>
    /\ hl = NotCalled
    /\ pc = "call"

NextDiff == codeblock

SpecDiff == InitDiff /\ [][NextDiff]_vars

\* A fenced block that is not highlighted
InitPlain ==
    /\ node \in [Type : {"CodeBlock"}, Info : {<<>>, <<"py">>, <<"py", " ">>, <<"Go", " ">>},
                 Literal : SeqsUpTo(LitBytes, MaxLitLen), Level : {0}, Prev : {FALSE}]
    /\ w = <<>>
    /\ hl = NotCalled
    /\ pc = "call"

NextPlain == codeblock

SpecPlain == InitPlain /\ [][NextPlain]_vars

\* ================================================================ claims
Done == pc = "done"

\* The tag the specification dispatches on: the info string up to its first
\* space or tab, the whole info string when it holds neither
InfoTag(info) ==
    LET k == IndexAny(info, Whitespace)
    IN IF k < 0 THEN info ELSE SubSeq(info, 1, k)

Recognized(lang) == lang \in {<<"Go">>, <<"Go-unformatted">>, <<"diff">>}

\* The escape of one byte, as the specification lists it
EntityOf(b) ==
    CASE b = "\"" -> <<"&", "q", "u", "o", "t", ";">>
      [] b = "&" -> <<"&", "a", "m", "p", ";">>
      [] b = "<" -> <<"&", "l", "t", ";">>
      [] b = ">" -> <<"&", "g", "t", ";">>
      [] OTHER -> <<b>>

RECURSIVE EscapeEach(_)
EscapeEach(src) ==
    IF src = <<>> THEN <<>> ELSE EntityOf(Head(src)) \o EscapeEach(Tail(src))

\* The tags of ws obey stack discipline, starting from the open tags in stack.
RECURSIVE WellNested(_, _)
WellNested(ws, stack) ==
    IF ws = <<>> THEN stack = <<>>
    ELSE IF Head(ws).t = "open"
    THEN WellNested(Tail(ws), <<Head(ws).name>> \o stack)
    ELSE IF Head(ws).t = "close"
    THEN /\ stack # <<>>
         /\ Head(stack) = Head(ws).name
         /\ WellNested(Tail(ws), Tail(stack))
    ELSE WellNested(Tail(ws), stack)

\* C1: the wrapper tags codeblock writes around the code body are well nested:
\* every tag opened before the body is closed once after it, in reverse order,
\* and no tag is closed that was not opened.
C1_WrapperTagsWellNested ==
    (Done /\ node.Type = "CodeBlock") => WellNested(w, <<>>)

\* C2: a code block gets the div highlight-{lang} wrapper if and only if
\* highlightCode handles its language tag; with any other tag it is written as
\* <pre><code>, the escaped source, </code></pre>.
C2_WrapperIffRecognized ==
    (Done /\ node.Type = "CodeBlock") =>
        /\ (w[1] = DivOpen(hl.lang)) <=> Recognized(hl.lang)
        /\ ~Recognized(hl.lang) =>
              w = <<OpenTag("pre"), OpenTag("code"),
                    [t |-> "bytes", data |-> EscapeEach(node.Literal)],
                    CloseTag("code"), CloseTag("pre")>>

\* C3: the tag highlightCode is called with is the info string up to its first
\* space or tab, the whole info string when it holds none, so the info strings
\* "diff" and "Go" reach the diff and the Go case.
C3_TagIsInfoUpToWhitespace ==
    (Done /\ node.Type = "CodeBlock") =>
        /\ hl.lang = InfoTag(node.Info)
        /\ node.Info = <<"diff">> => hl.path = "diff"
        /\ node.Info = <<"Go">> => hl.path = "Go"

\* w without the line breaks heading writes before and after the element
NoLineBreaks(ws) == SelectSeq(ws, LAMBDA x : x # Newline)

\* C4: apart from the line breaks around it, heading writes exactly <h{level}>,
\* the anchor element named by the slug with href "#" + slug, the heading's
\* inline content unchanged (once, between </a> and the closing tag), and
\* </h{level}> with the same level.
C4_HeadingMarkupExact ==
    (Done /\ node.Type = "Heading") =>
        NoLineBreaks(w) = <<HOpen(node.Level)>> \o headingAnchor(node.Literal)
                          \o node.Literal \o <<HClose(node.Level)>>

\* ---------------------------------------------------------------- diff claims
\* The lines of the block's literal and their start offsets; line i is 0-based.
SrcLines == Split(node.Literal, "\n")

SrcLineStarts == lineStartsOf(SrcLines)

LineChar(i) == firstChar(SrcLines[i + 1])

IsChangeLine(i) == LineChar(i) \in {"+", "-"}

\* The lines that close a hunk: a line that is neither '+' nor '-' right after
\* one that is
Terminators == {i \in 1..(Len(SrcLines) - 1) : ~IsChangeLine(i) /\ IsChangeLine(i - 1)}

\* The k-th hunk's closing line and the first line of its run of '+'/'-' lines
Terminator(k) == CHOOSE i \in Terminators : Cardinality({j \in Terminators : j < i}) = k - 1

RunStart(i) == Min({j \in 0..(i - 1) : \A l \in j..(i - 1) : IsChangeLine(l)})

\* The run before closing line i is m Removed lines followed by Added lines only.
RemovedThenAdded(i, m) ==
    /\ \A l \in RunStart(i)..(RunStart(i) + m - 1) : LineChar(l) = "-"
    /\ \A l \in (RunStart(i) + m)..(i - 1) : LineChar(l) = "+"

Scanned == Done /\ node.Type = "CodeBlock" /\ hl.scanned

\* The line that starts at offset off
LineAt(off) == CHOOSE l \in 0..(Len(SrcLines) - 1) : SrcLineStarts[l + 1] = off

\* C5: every run of m Removed lines followed by n Added lines (m + n >= 1, the
\* whole run since the last context line) that a context line closes gets
\* exactly one pair of wrappers: gd from the first removed line's start to the
\* first added line's start, gi from there to the context line's start, the
\* context line in neither range; the gi range is empty when n = 0 and the gd
\* range when m = 0.
C5_OnePairPerRemovedAddedBlock ==
    Scanned =>
        /\ Len(hl.scan.anns) = 2 * Cardinality(Terminators)
        /\ \A k \in 1..Cardinality(Terminators) :
             LET i == Terminator(k)
                 j == RunStart(i)
             IN \A m \in 0..(i - j) :
                  RemovedThenAdded(i, m) =>
                     /\ hl.scan.anns[2 * k - 1] =
                           Annotation(SrcLineStarts[j + 1], SrcLineStarts[j + m + 1], GdLeft)
                     /\ hl.scan.anns[2 * k] =
                           Annotation(SrcLineStarts[j + m + 1], SrcLineStarts[i + 1], GiLeft)
                     /\ hl.scan.anns[2 * k - 1].End <= SrcLineStarts[i + 1]
                     /\ hl.scan.anns[2 * k].End <= SrcLineStarts[i + 1]
                     /\ (m = i - j) =>
                           hl.scan.anns[2 * k].Start = hl.scan.anns[2 * k].End
                     /\ (m = 0) =>
                           hl.scan.anns[2 * k - 1].Start = hl.scan.anns[2 * k - 1].End

\* C5 witness: the scan of "-a","-a","+a","+a","a" has ended with one pair.
C5_Witness ==
    /\ Scanned
    /\ SrcLines = <<<<"-", "a">>, <<"-", "a">>, <<"+", "a">>, <<"+", "a">>, <<"a">>>>
    /\ hl.scan.anns = <<Annotation(0, 6, GdLeft), Annotation(6, 12, GiLeft)>>

\* C6: the end of input closes a pending hunk as a context line does: when a
\* marker is still set after the last line, the run's two wrappers are emitted
\* all the same, so every run of '+'/'-' lines has its pair.
C6_EndOfInputClosesHunk ==
    (Scanned /\ (hl.scan.lastDel # -1 \/ hl.scan.lastIns # -1)) =>
        Len(hl.scan.anns) = 2 * (Cardinality(Terminators) + 1)

\* Whether the k-th hunk was passed to HighlightedDiffFunc
PassedToSegments(k) ==
    \E c \in 1..Len(hl.scan.segments) :
        hl.scan.segments[c].offsets =
            <<hl.scan.anns[2 * k - 1].Start, hl.scan.anns[2 * k].Start>>

BothWrappers(k) ==
    /\ hl.scan.anns[2 * k - 1].Left = GdLeft
    /\ hl.scan.anns[2 * k].Left = GiLeft

C9_WrapperOffsetsOrdered ==
    Scanned =>
        \A k \in 1..Len(hl.scan.anns) :
            /\ 0 <= hl.scan.anns[k].Start
            /\ hl.scan.anns[k].Start <= hl.scan.anns[k].End
            /\ hl.scan.anns[k].End <= Len(node.Literal)

Covers(ann, l) == ann.Start <= SrcLineStarts[l + 1] /\ SrcLineStarts[l + 1] < ann.End

\* C10: the gd range of a hunk covers only Removed lines and its gi range only
\* Added lines; stated for the hunks whose run begins with a Removed line, the
\* order of the claim's example "-a","+b","-c","+d".
C10_RangesCoverOwnLinesOnly ==
    Scanned =>
        \A k \in 1..Cardinality(Terminators) :
            LineChar(RunStart(Terminator(k))) = "-" =>
                \A l \in 0..(Len(SrcLines) - 1) :
                    /\ Covers(hl.scan.anns[2 * k - 1], l) => LineChar(l) = "-"
                    /\ Covers(hl.scan.anns[2 * k], l) => LineChar(l) = "+"

\* ---------------------------------------------------------------- escape claim
Entities == {EntityOf(b) : b \in {"\"", "&", "<", ">"}}

EntityAt(data, k) ==
    \E e \in Entities : k + Len(e) - 1 <= Len(data) /\ SubSeq(data, k, k + Len(e) - 1) = e

PlainBody == SelectSeq(w, LAMBDA x : x.t = "bytes")

\* C8: for a code block that is not highlighted, attrEscape writes the escapes
\* of the literal's bytes, in order, each once; what it writes holds no raw
\* quote, < or >, and every & in it starts one of the four entities.
C8_AttrEscapeEachByteOnce ==
    (Done /\ node.Type = "CodeBlock" /\ ~hl.ok) =>
        /\ Len(PlainBody) = 1
        /\ PlainBody[1].data = EscapeEach(node.Literal)
        /\ \A k \in 1..Len(PlainBody[1].data) :
             /\ PlainBody[1].data[k] \notin {"\"", "<", ">"}
             /\ PlainBody[1].data[k] = "&" => EntityAt(PlainBody[1].data, k)

\* C8 witness: the literal a<& was written as a&lt;&amp;.
C8_Witness ==
    /\ Done
    /\ ~hl.ok
    /\ node.Literal = <<"a", "<", "&">>
    /\ PlainBody = <<[t |-> "bytes",
                      data |-> <<"a", "&", "l", "t", ";", "&", "a", "m", "p", ";">>]>>

====
